---- MODULE Spec2Model ----
(***************************************************************************)
(* Model of src/main.py: the session/display controller                   *)
(* (ImageProcessingApp), the processing facade (ImageProcessor) and the    *)
(* parameter controls built by update_controls.                            *)
(*                                                                         *)
(* Every Qt slot (load_image, update_controls, process_image, resizeEvent, *)
(* a value change of a control) runs to completion on the UI thread, so    *)
(* each is one action.  A Python exception raised inside a slot leaves the *)
(* assignments made before it in place and skips the rest of the slot.     *)
(*                                                                         *)
(* Abstractions, all of library code that is not part of src/:             *)
(*  - an image is its shape (w, h, ch), MaxPx sampled channel values (px), *)
(*    a tag for a library transform applied to it (op) and the overlay     *)
(*    drawn on it; the picture's Hough accumulator peaks and corner        *)
(*    qualities are part of the decoded content (scene);                   *)
(*  - cv2.equalizeHist, cv2.cvtColor and cv2.Canny are not interpreted;    *)
(*  - cv2.convertScaleAbs and imutils.resize are computed, with the        *)
(*    floating-point outcomes that depend on the build left open.          *)
(***************************************************************************)
EXTENDS Integers, Sequences, FiniteSets, TLC

VARIABLES
    original_image,       \* self.original_image: None or Some(image)
    processed_image,      \* self.processed_image: None or Some(image)
    method,               \* self.method_combo.currentText()
    controls,             \* the parameter widgets held in attributes of self
    original_label,       \* pixmap shown by self.original_label
    processed_label,      \* pixmap shown by self.processed_label
    original_histogram,   \* what self.original_histogram plots
    processed_histogram,  \* what self.processed_histogram plots
    app,                  \* "running", or "aborted" after an unhandled exception
    cvTies,               \* how this build's float rounding resolves an exact .5
    last,                 \* history: the slot that ran last and how it ended
    probe                 \* a facade call on its own (specification SpecPixel)

vars == <<original_image, processed_image, method, controls, original_label,
          processed_label, original_histogram, processed_histogram, app,
          cvTies, last, probe>>

session == <<original_image, processed_image, method, controls>>

display == <<original_label, processed_label, original_histogram,
             processed_histogram>>

-----------------------------------------------------------------------------
(* Bounds of the model *)

\* sampled channel values carried by an image
MaxPx == 1

\* most line / corner features in a decoded picture
MaxFeat == 1

-----------------------------------------------------------------------------
(* Values *)

None == <<>>

Some(x) == <<x>>

Abs(x) == IF x < 0 THEN -x ELSE x

Min(a, b) == IF a < b THEN a ELSE b

Max(a, b) == IF a < b THEN b ELSE a

\* width=500 in display_image
DisplayWidth == 500

\* channel values sampled in the application model
PixelSamples == {45, 255}

\* (w, h) of the pictures taken with every content
Dims == {<<640, 480>>}

\* (w, h) of two more files: a strip more than 500 times as wide as high,
\* and a picture whose scaled height is an exact integer
OddDims == {<<1000, 1>>, <<6, 195>>}

NoOp == [name |-> "none", a |-> 0, b |-> 0]

NoOverlay == [shape |-> "none", n |-> 0]

\* the content of a picture with f features: Hough accumulator peaks (votes)
\* and corner qualities in percent of the best corner
Scene(f) ==
    [votes |-> [i \in 1..f |-> 50 + 100 * i],
     corners |-> [i \in 1..f |-> 100 \div i]]

\* what cv2.imread returns for a decodable file: 3-channel, 8 bit
Picture(d, p, f) ==
    [w |-> d[1], h |-> d[2], ch |-> 3, px |-> p, scene |-> Scene(f),
     op |-> NoOp, overlay |-> NoOverlay]

\* the decodable files: the pictures of Dims with every content, and white
\* featureless pictures of OddDims
Pictures ==
    {Picture(d, p, f) :
        d \in Dims, p \in [1..MaxPx -> PixelSamples], f \in 0..MaxFeat}
    \cup {Picture(d, [i \in 1..MaxPx |-> 255], 0) : d \in OddDims}

\* the files the dialog can return: one that does not decode, and pictures
Files ==
    {[decodable |-> FALSE, data |-> None]}
    \cup {[decodable |-> TRUE, data |-> Some(img)] : img \in Pictures}

Methods ==
    {"Linear Contrast", "RGB Histogram Equalization",
     "HSV Histogram Equalization", "Edge Detection", "Line Detection",
     "Corner Detection"}

Attrs ==
    {"alpha_slider", "beta_slider", "threshold1", "threshold2", "rho_spin",
     "theta_spin", "threshold_spin", "max_corners", "quality_level",
     "min_distance"}

-----------------------------------------------------------------------------
(* Parameter controls: QSlider / QSpinBox *)

\* an attribute of self that holds no usable widget: it was never assigned,
\* or its widget went with the container update_controls discarded; a read
\* of either raises
NoControl == [live |-> FALSE, min |-> 0, max |-> 0, value |-> 0]

\* QAbstractSlider.setValue / QSpinBox.setValue: the value is bound to the
\* widget's range
setValue(widget, x) ==
    [widget EXCEPT !.value = Max(widget.min, Min(widget.max, x))]

\* setRange(lo, hi) on a fresh widget (range 0..99, value 0), which keeps the
\* value inside the new range
setRange(lo, hi) ==
    [live |-> TRUE, min |-> lo, max |-> hi, value |-> Max(lo, Min(hi, 0))]

\* the spin box for theta allowed to reach 0
LineControls_thetaFromZero ==
    <<[attr |-> "rho_spin", min |-> 1, max |-> 10, default |-> 1],
      [attr |-> "theta_spin", min |-> 0, max |-> 180, default |-> 180],
      [attr |-> "threshold_spin", min |-> 0, max |-> 200, default |-> 100]>>

\* the params list of the "Line Detection" branch
LineControls ==
    <<[attr |-> "rho_spin", min |-> 1, max |-> 10, default |-> 1],
      [attr |-> "theta_spin", min |-> 1, max |-> 180, default |-> 180],
      [attr |-> "threshold_spin", min |-> 0, max |-> 200, default |-> 100]>>

\* the controls update_controls builds for a method: attribute, range, default
ControlSpec(m) ==
    CASE m = "Linear Contrast" ->
           <<[attr |-> "alpha_slider", min |-> 10, max |-> 30, default |-> 10],
             [attr |-> "beta_slider", min |-> -50, max |-> 50, default |-> 0]>>
      [] m = "Edge Detection" ->
           <<[attr |-> "threshold1", min |-> 0, max |-> 255, default |-> 100],
             [attr |-> "threshold2", min |-> 0, max |-> 255, default |-> 200]>>
      [] m = "Line Detection" -> LineControls
      [] m = "Corner Detection" ->
           <<[attr |-> "max_corners", min |-> 1, max |-> 100, default |-> 25],
             [attr |-> "quality_level", min |-> 1, max |-> 100, default |-> 10],
             [attr |-> "min_distance", min |-> 1, max |-> 100, default |-> 10]>>
      [] OTHER -> <<>>

\* the widgets of self after update_controls ran for method m: the layout is
\* emptied, then m's controls are created with their range and default
BuildControls(m) ==
    LET spec == ControlSpec(m)
        at(a) == CHOOSE i \in 1..Len(spec) : spec[i].attr = a
    IN  [a \in Attrs |->
            IF \E i \in 1..Len(spec) : spec[i].attr = a
            THEN setValue(setRange(spec[at(a)].min, spec[at(a)].max),
                          spec[at(a)].default)
            ELSE NoControl]

\* the values a user asks a visible control for: below and above every
\* range, and a contrast of 1.5 for the slider
Requested(a) == {-1000, 1000} \cup (IF a = "alpha_slider" THEN {15} ELSE {})

-----------------------------------------------------------------------------
(* Processing facade: ImageProcessor *)

\* saturate_cast<uchar>(|alpha * v + beta|) of cv2.convertScaleAbs, alpha a
\* rational num/den.  The value is rounded to the nearest integer; an exact
\* .5 goes up or down with the build's float arithmetic (ties).
convertScaleAbs(v, alpha, beta, ties) ==
    LET mag == Abs(alpha.num * v + alpha.den * beta)
        q == mag \div alpha.den
        r == mag % alpha.den
        rounded == IF 2 * r < alpha.den THEN q
                   ELSE IF 2 * r > alpha.den THEN q + 1
                   ELSE IF ties = "up" THEN q + 1 ELSE q
    IN  Min(rounded, 255)

linear_contrast(image, alpha, beta, ties) ==
    [image EXCEPT
        !.px = [i \in DOMAIN image.px |->
                    convertScaleAbs(image.px[i], alpha, beta, ties)]]

histogram_equalization_rgb(image) ==
    [image EXCEPT !.op = [name |-> "equalizeHist_bgr", a |-> 0, b |-> 0]]

histogram_equalization_hsv(image) ==
    [image EXCEPT !.op = [name |-> "equalizeHist_v", a |-> 0, b |-> 0]]

\* cv2.Canny: a single-channel edge map of the same size
detect_edges(image, threshold1, threshold2) ==
    [image EXCEPT !.ch = 1,
                  !.op = [name |-> "Canny", a |-> threshold1, b |-> threshold2]]

\* cv2.HoughLines: the accumulator peaks with more votes than threshold;
\* None when there are none
HoughLines(edges, rho, theta, threshold) ==
    LET found == {i \in DOMAIN edges.scene.votes :
                      edges.scene.votes[i] > threshold}
    IN  IF found = {} THEN None ELSE Some(Cardinality(found))

\* the edge map returned when no line is found
detect_lines_returnsEdges(image, rho, theta, threshold) ==
    LET edges == detect_edges(image, 50, 150)
        lines == HoughLines(edges, rho, theta, threshold)
    IN  IF lines # None
        THEN [image EXCEPT !.overlay = [shape |-> "line", n |-> lines[1]]]
        ELSE edges

\* theta is pi / theta.den
detect_lines(image, rho, theta, threshold) ==
    LET edges == detect_edges(image, 50, 150)
        lines == HoughLines(edges, rho, theta, threshold)
        result == image
    IN  IF lines # None
        THEN [result EXCEPT !.overlay = [shape |-> "line", n |-> lines[1]]]
        ELSE result

\* cv2.goodFeaturesToTrack: at most maxCorners of the corners whose quality
\* is at least qualityLevel of the best one; None when there are none
goodFeaturesToTrack(gray, maxCorners, qualityLevel, minDistance) ==
    LET good == {i \in DOMAIN gray.scene.corners :
                     gray.scene.corners[i] * qualityLevel.den
                         >= 100 * qualityLevel.num}
    IN  IF good = {} THEN None
        ELSE Some(Min(maxCorners, Cardinality(good)))

detect_corners(image, max_corners, quality_level, min_distance) ==
    LET gray == [image EXCEPT !.ch = 1]
        corners == goodFeaturesToTrack(gray, max_corners, quality_level,
                                       min_distance)
        result == image
    IN  IF corners # None
        THEN [result EXCEPT !.overlay = [shape |-> "circle", n |-> corners[1]]]
        ELSE result

-----------------------------------------------------------------------------
(* Preview and histogram *)

RECURSIVE GCD(_, _)
GCD(a, b) == IF b = 0 THEN a ELSE GCD(b, a % b)

RECURSIVE IsPowerOfTwo(_)
IsPowerOfTwo(n) ==
    IF n = 1 THEN TRUE ELSE IF n % 2 = 1 THEN FALSE ELSE IsPowerOfTwo(n \div 2)

\* the heights int(h * (width / float(w))) of imutils.resize can give: the
\* quotient h * width / w truncated; where that quotient is an integer and
\* width / w is no binary fraction, the product may fall just short of it
ResizeHeights(image, width) ==
    LET q == (image.h * width) \div image.w
        exact == (image.h * width) % image.w = 0
        binary == IsPowerOfTwo(image.w \div GCD(image.w, width))
    IN  IF exact /\ ~binary THEN {q - 1, q} ELSE {q}

\* a slot's step that raised
Raised == <<>>

\* display_image(image, label): the pixmap set on the label, or Raised:
\* imutils.resize reads image.shape (None has none), and cv2.resize rejects
\* a target size with a height of 0
display_image(image) ==
    IF image = None THEN {Raised}
    ELSE {IF height >= 1
          THEN Some([width |-> DisplayWidth, height |-> height,
                     ch |-> image[1].ch, source |-> image[1]])
          ELSE Raised :
              height \in ResizeHeights(image[1], DisplayWidth)}

\* HistogramWidget.update_histogram: three series for a colour image, one
\* for a single-channel image
update_histogram(image) ==
    Some([series |-> IF image.ch = 3 THEN 3 ELSE 1, of |-> image])

-----------------------------------------------------------------------------
(* Session / display controller: ImageProcessingApp *)

\* cv2.imread: the decoded picture, or None when the file does not decode
imread(file) == file.data

\* An exception that leaves a slot is not handled by main.py, which installs
\* no exception hook: PyQt6 prints the traceback and calls qFatal(), which
\* aborts the process.  The state is the one the slot had reached.
Unhandled == app' = "aborted"

Finished(op, outcome) == last' = [op |-> op, outcome |-> outcome]

\* the attributes process_image reads for a method
ParamReads(m) ==
    CASE m = "Linear Contrast" -> {"alpha_slider", "beta_slider"}
      [] m = "Edge Detection" -> {"threshold1", "threshold2"}
      [] m = "Line Detection" -> {"rho_spin", "theta_spin", "threshold_spin"}
      [] m = "Corner Detection" ->
           {"max_corners", "quality_level", "min_distance"}
      [] OTHER -> {}

\* the slider value passed as alpha without the division by 10.0
LinearArgs_unscaled(c) ==
    [alpha |-> [num |-> c["alpha_slider"].value, den |-> 1],
     beta |-> c["beta_slider"].value]

\* alpha = alpha_slider.value() / 10.0, beta = beta_slider.value()
LinearArgs(c) ==
    [alpha |-> [num |-> c["alpha_slider"].value, den |-> 10],
     beta |-> c["beta_slider"].value]

\* the arguments process_image passes to the facade; a float is the rational
\* num / den, theta in units of pi
ProcessArgs(m, c) ==
    CASE m = "Linear Contrast" -> LinearArgs(c)
      [] m = "Edge Detection" ->
           [threshold1 |-> c["threshold1"].value,
            threshold2 |-> c["threshold2"].value]
      [] m = "Line Detection" ->
           [rho |-> c["rho_spin"].value,
            theta |-> [num |-> 1, den |-> c["theta_spin"].value],
            threshold |-> c["threshold_spin"].value]
      [] m = "Corner Detection" ->
           [max_corners |-> c["max_corners"].value,
            quality_level |-> [num |-> c["quality_level"].value, den |-> 100],
            min_distance |-> c["min_distance"].value]
      [] OTHER -> [none |-> 0]

\* reading the parameters raises: an attribute without a usable widget, or
\* np.pi / 0
ParamsRaise(m, c) ==
    \/ \E a \in ParamReads(m) : ~c[a].live
    \/ m = "Line Detection" /\ c["theta_spin"].value = 0

\* the dispatch of process_image
Dispatch(m, image, args, ties) ==
    CASE m = "Linear Contrast" ->
           linear_contrast(image, args.alpha, args.beta, ties)
      [] m = "RGB Histogram Equalization" -> histogram_equalization_rgb(image)
      [] m = "HSV Histogram Equalization" -> histogram_equalization_hsv(image)
      [] m = "Edge Detection" ->
           detect_edges(image, args.threshold1, args.threshold2)
      [] m = "Line Detection" ->
           detect_lines(image, args.rho, args.theta, args.threshold)
      [] m = "Corner Detection" ->
           detect_corners(image, args.max_corners, args.quality_level,
                          args.min_distance)

IdleProbe == [image |-> None, alpha |-> [num |-> 10, den |-> 10], beta |-> 0,
              out |-> None]

Init ==
    /\ original_image = None
    /\ processed_image = None
    /\ method = "Linear Contrast"
    /\ controls = BuildControls("Linear Contrast")
    /\ original_label = None
    /\ processed_label = None
    /\ original_histogram = None
    /\ processed_histogram = None
    /\ app = "running"
    /\ cvTies \in {"down", "up"}
    /\ last = [op |-> "init", outcome |-> "ok"]
    /\ probe = IdleProbe

\* the file dialog is cancelled: file_name is empty
load_cancel ==
    /\ app = "running"
    /\ Finished("load", "cancel")
    /\ UNCHANGED <<session, display, app, cvTies, probe>>

\* load_image with a file chosen
load_image ==
    /\ app = "running"
    /\ \E file \in Files :
          /\ original_image' = imread(file)
          /\ \E shown \in display_image(imread(file)) :
                IF shown = Raised
                THEN /\ Unhandled
                     /\ Finished("load", "raised")
                     /\ UNCHANGED <<processed_image, display>>
                ELSE /\ original_label' = shown
                     /\ original_histogram' = update_histogram(imread(file)[1])
                     /\ processed_image' = None
                     /\ processed_label' = None
                     /\ processed_histogram' = None
                     /\ Finished("load", "ok")
                     /\ UNCHANGED app
    /\ UNCHANGED <<method, controls, cvTies, probe>>

\* update_controls showing the widgets it built earlier for the method
\* instead of creating them again
update_controls_keepsWidgets ==
    /\ app = "running"
    /\ \E m \in Methods \ {method} :
          /\ method' = m
          /\ controls' =
                [a \in Attrs |->
                    IF ~BuildControls(m)[a].live
                    THEN [controls[a] EXCEPT !.live = FALSE]
                    ELSE IF controls[a].min < controls[a].max
                    THEN [controls[a] EXCEPT !.live = TRUE]
                    ELSE BuildControls(m)[a]]
    /\ Finished("select", "ok")
    /\ UNCHANGED <<original_image, processed_image, display, app, cvTies,
                   probe>>

\* the user picks another entry of method_combo: currentIndexChanged runs
\* update_controls
update_controls ==
    /\ app = "running"
    /\ \E m \in Methods \ {method} :
          /\ method' = m
          /\ controls' = BuildControls(m)
    /\ Finished("select", "ok")
    /\ UNCHANGED <<original_image, processed_image, display, app, cvTies,
                   probe>>

\* the user moves a slider or edits a spin box that is in the layout
change_control ==
    /\ app = "running"
    /\ \E a \in Attrs :
          /\ controls[a].live
          /\ \E x \in Requested(a) :
                controls' = [controls EXCEPT ![a] = setValue(controls[a], x)]
    /\ Finished("change", "ok")
    /\ UNCHANGED <<original_image, processed_image, method, display, app,
                   cvTies, probe>>

\* process_image without the check for a source image: the facade call
\* raises on None
process_no_source_raises ==
    /\ Unhandled
    /\ Finished("process", "raised")
    /\ UNCHANGED <<session, display>>

\* process_image without a source image: it returns at once
process_no_source ==
    /\ Finished("process", "noop")
    /\ UNCHANGED <<session, display, app>>

\* the previous result handed to the facade when there is one
ProcessInput_previousResult ==
    IF processed_image # None THEN processed_image[1] ELSE original_image[1]

\* the image process_image hands to the facade
ProcessInput == original_image[1]

process_image ==
    /\ app = "running"
    /\ IF original_image = None
       THEN process_no_source
       ELSE IF ParamsRaise(method, controls)
       THEN /\ Unhandled
            /\ Finished("process", "raised")
            /\ UNCHANGED <<session, display>>
       ELSE /\ processed_image' =
                   Some(Dispatch(method, ProcessInput,
                                 ProcessArgs(method, controls), cvTies))
            /\ \E shown \in display_image(processed_image') :
                  IF shown = Raised
                  THEN /\ Unhandled
                       /\ Finished("process", "raised")
                       /\ UNCHANGED display
                  ELSE /\ processed_label' = shown
                       /\ processed_histogram' =
                              update_histogram(processed_image'[1])
                       /\ Finished("process", "ok")
                       /\ UNCHANGED <<original_label, original_histogram, app>>
            /\ UNCHANGED <<original_image, method, controls>>
    /\ UNCHANGED <<cvTies, probe>>

\* the window is resized: both previews are derived again
resizeEvent ==
    /\ app = "running"
    /\ \E shown1 \in IF original_image # None
                     THEN display_image(original_image)
                     ELSE {Some(0)} :
          IF shown1 = Raised
          THEN /\ Unhandled
               /\ Finished("resize", "raised")
               /\ UNCHANGED display
          ELSE /\ original_label' =
                      IF original_image # None THEN shown1 ELSE original_label
               /\ \E shown2 \in IF processed_image # None
                                THEN display_image(processed_image)
                                ELSE {Some(0)} :
                     IF shown2 = Raised
                     THEN /\ Unhandled
                          /\ Finished("resize", "raised")
                          /\ UNCHANGED processed_label
                     ELSE /\ processed_label' =
                                 IF processed_image # None THEN shown2
                                 ELSE processed_label
                          /\ Finished("resize", "ok")
                          /\ UNCHANGED app
               /\ UNCHANGED <<original_histogram, processed_histogram>>
    /\ UNCHANGED <<session, cvTies, probe>>

Next ==
    \/ load_cancel
    \/ load_image
    \/ update_controls
    \/ change_control
    \/ process_image
    \/ resizeEvent

Spec == Init /\ [][Next]_vars

-----------------------------------------------------------------------------
(* ImageProcessor.linear_contrast on its own, over every channel value *)

\* positions of the brightness slider: every fifth one, and one step either
\* side of the default
BetaSamples == {b \in -50..50 : b % 5 = 0 \/ b \in {-1, 1}}

\* every channel value and every position of the contrast slider
Probes ==
    {[image |-> Some(Picture(d, <<v>>, 0)), alpha |-> [num |-> a, den |-> 10],
      beta |-> b, out |-> None] :
        d \in Dims, v \in 0..255, a \in 10..30, b \in BetaSamples}

InitPixel ==
    /\ original_image = None
    /\ processed_image = None
    /\ method = "Linear Contrast"
    /\ controls = BuildControls("Linear Contrast")
    /\ original_label = None
    /\ processed_label = None
    /\ original_histogram = None
    /\ processed_histogram = None
    /\ app = "running"
    /\ cvTies \in {"down", "up"}
    /\ last = [op |-> "init", outcome |-> "ok"]
    /\ probe \in Probes

call_linear_contrast ==
    /\ probe.out = None
    /\ probe' = [probe EXCEPT
                    !.out = Some(linear_contrast(probe.image[1], probe.alpha,
                                                 probe.beta, cvTies))]
    /\ UNCHANGED <<session, display, app, cvTies, last>>

NextPixel == call_linear_contrast

SpecPixel == InitPixel /\ [][NextPixel]_vars

-----------------------------------------------------------------------------
(* Claims *)

\* C1: a load whose file does not decode leaves the session state as it
\* was: the original slot, the processed slot, both previews and both
\* histograms are the same after the failed load as before it.
C1_FailedLoadKeepsState ==
    [][(last'.op = "load" /\ last'.outcome = "raised"
            /\ original_image' = None)
        => UNCHANGED <<original_image, processed_image, display>>]_vars

\* the processed image has the size and content of a transform of the original
DerivedFrom(processed, original) ==
    /\ processed.w = original.w
    /\ processed.h = original.h
    /\ processed.scene = original.scene
    /\ DOMAIN processed.px = DOMAIN original.px

\* C2: in every state the processed slot is non-empty only if the original
\* slot holds a loaded image and the processed image was made from that
\* image; in particular processed non-empty implies original non-empty.
C2_ProcessedNeedsOriginal ==
    processed_image # None
        => /\ original_image # None
           /\ DerivedFrom(processed_image[1], original_image[1])

\* C3: process() with the original slot empty is a silent no-op for every
\* method: no error, no transform, and the slots, the method selection, the
\* controls, the previews and the histograms are unchanged.
C3_ProcessWithoutImageIsNoOp ==
    [][(original_image = None /\ last'.op = "process")
        => /\ last'.outcome = "noop"
           /\ UNCHANGED <<session, display, app>>]_vars

C3_Witness ==
    /\ last = [op |-> "process", outcome |-> "noop"]
    /\ original_image = None
    /\ method = "Corner Detection"
    /\ controls["max_corners"].value = 100
    /\ app = "running"

\* C4: a load whose file decodes replaces the original slot with the
\* decoded image, leaves the processed slot empty, shows the new image in
\* the original preview and histogram and clears the processed preview and
\* histogram, from any prior state.
C4_LoadReplacesAndRefreshes ==
    [][(last'.op = "load" /\ last'.outcome # "cancel"
            /\ original_image' # None)
        => /\ processed_image' = None
           /\ processed_label' = None
           /\ processed_histogram' = None
           /\ original_label' \in display_image(original_image') \ {Raised}
           /\ original_histogram' = update_histogram(original_image'[1])]_vars

\* C5: process() with an original image stores the selected method applied
\* to the original image (never to an earlier result) with the current
\* parameter values, and leaves the original slot, the method selection and
\* the controls unchanged; so repeating it gives the same processed image.
C5_ProcessStoresDispatchOfOriginal ==
    [][(original_image # None /\ last'.op = "process")
        => /\ processed_image' =
                  Some(Dispatch(method, original_image[1],
                                ProcessArgs(method, controls), cvTies))
           /\ UNCHANGED <<original_image, method, controls>>]_vars

C5_Witness ==
    /\ last = [op |-> "process", outcome |-> "ok"]
    /\ method = "Line Detection"
    /\ processed_image # None
    /\ processed_image[1].overlay.shape = "line"
    /\ original_image[1].overlay.shape = "none"

\* C6: for every channel value v, every alpha in 1.0, 1.1 .. 3.0 and every
\* beta in -50 .. 50, linear contrast gives clamp(alpha * v + beta, 0, 255),
\* rounded to a nearest integer.
C6_LinearContrastIsClamp ==
    probe.out # None
        => LET v == probe.image[1].px[1]
               out == probe.out[1].px[1]
               den == probe.alpha.den
               exact == probe.alpha.num * v + den * probe.beta
               clamped == Max(0, Min(255 * den, exact))
           IN  2 * Abs(den * out - clamped) <= den

\* C7: linear contrast with the default slider values (alpha = 1.0, beta =
\* 0) is the identity: the output image equals the input image.
C7_DefaultLinearContrastIsIdentity ==
    LET defaults == ProcessArgs("Linear Contrast",
                                BuildControls("Linear Contrast"))
    IN  /\ defaults.alpha.num = defaults.alpha.den
        /\ defaults.beta = 0
        /\ (probe.out # None /\ probe.alpha = defaults.alpha
                /\ probe.beta = defaults.beta)
              => probe.out = probe.image

C7_Witness ==
    /\ probe.out # None
    /\ probe.alpha = [num |-> 10, den |-> 10]
    /\ probe.beta = 0
    /\ probe.image[1].px[1] = 255
    /\ probe.out = probe.image

InRange(x, lo, hi) == lo <= x /\ x <= hi

\* C8: every value process() passes to the facade lies in its range: alpha
\* = slider / 10 in 1.0 .. 3.0, beta in -50 .. 50; the edge thresholds in 0
\* .. 255; rho in 1 .. 10, theta = pi / n with n in 1 .. 180, the vote
\* threshold in 0 .. 200; max-corners in 1 .. 100, quality = slider / 100 in
\* 0.01 .. 1.00, min-distance in 1 .. 100; and reading them raises nothing.
C8_ParametersInRange ==
    LET args == ProcessArgs(method, controls)
    IN  /\ ~ParamsRaise(method, controls)
        /\ CASE method = "Linear Contrast" ->
                  /\ args.alpha.den = 10
                  /\ InRange(args.alpha.num, 10, 30)
                  /\ InRange(args.beta, -50, 50)
             [] method = "Edge Detection" ->
                  /\ InRange(args.threshold1, 0, 255)
                  /\ InRange(args.threshold2, 0, 255)
             [] method = "Line Detection" ->
                  /\ InRange(args.rho, 1, 10)
                  /\ args.theta.num = 1
                  /\ InRange(args.theta.den, 1, 180)
                  /\ InRange(args.threshold, 0, 200)
             [] method = "Corner Detection" ->
                  /\ InRange(args.max_corners, 1, 100)
                  /\ args.quality_level.den = 100
                  /\ InRange(args.quality_level.num, 1, 100)
                  /\ InRange(args.min_distance, 1, 100)
             [] OTHER -> TRUE

C8_Witness ==
    /\ last = [op |-> "process", outcome |-> "ok"]
    /\ method = "Line Detection"
    /\ controls["theta_spin"].value = 1
    /\ controls["rho_spin"].value = 10
    /\ controls["threshold_spin"].value = 0

\* the label shows a copy of the image scaled to the display width, its
\* height h * 500 / w to within one pixel
ScaledCopy(label, image) ==
    /\ label # None
    /\ label[1].source = image
    /\ label[1].width = DisplayWidth
    /\ label[1].height >= 1
    /\ Abs(label[1].height * image.w - image.h * DisplayWidth) <= image.w

\* C9: every loaded or processed image of width and height >= 1 is shown as
\* a copy scaled to width 500 with the aspect ratio kept, after the load or
\* the process and after every resize.
C9_PreviewIsScaledCopy ==
    /\ original_image # None => ScaledCopy(original_label, original_image[1])
    /\ processed_image # None
          => ScaledCopy(processed_label, processed_image[1])

\* C10: when the detector reports no lines (no corners), line (corner)
\* detection returns an image equal to its input; an overlay is drawn only
\* when there is a detection, and then for each one.
C10_NoDetectionReturnsInput ==
    [][(original_image # None /\ last'.op = "process"
            /\ last'.outcome = "ok")
        => LET image == original_image[1]
               args == ProcessArgs(method, controls)
               lines == HoughLines(detect_edges(image, 50, 150), args.rho,
                                   args.theta, args.threshold)
               corners == goodFeaturesToTrack([image EXCEPT !.ch = 1],
                                              args.max_corners,
                                              args.quality_level,
                                              args.min_distance)
               result == processed_image'[1]
           IN  /\ method = "Line Detection" =>
                     /\ lines = None => result = image
                     /\ lines # None =>
                           result.overlay = [shape |-> "line", n |-> lines[1]]
               /\ method = "Corner Detection" =>
                     /\ corners = None => result = image
                     /\ corners # None =>
                           result.overlay =
                               [shape |-> "circle", n |-> corners[1]]
               /\ original_image' = original_image]_vars

C10_Witness ==
    /\ last = [op |-> "process", outcome |-> "ok"]
    /\ method = "Line Detection"
    /\ original_image # None
    /\ original_image[1].scene.votes # <<>>
    /\ controls["threshold_spin"].value = 200
    /\ processed_image = original_image

\* the value each control shows when update_controls has created it
DefaultValues ==
    [alpha_slider |-> 10, beta_slider |-> 0, threshold1 |-> 100,
     threshold2 |-> 200, rho_spin |-> 1, theta_spin |-> 180,
     threshold_spin |-> 100, max_corners |-> 25, quality_level |-> 10,
     min_distance |-> 10]

\* C11: every change of the method selector creates the controls of the
\* newly selected method anew with their default values, whatever was set in
\* an earlier selection of that method, and changes neither image slot; and
\* whenever process() dispatches, every control it reads exists.
C11_SelectionRebuildsDefaults ==
    [][/\ last'.op = "select"
            => /\ method' # method
               /\ \A a \in ParamReads(method') :
                     /\ controls'[a].live
                     /\ controls'[a].value = DefaultValues[a]
               /\ \A a \in Attrs \ ParamReads(method') : ~controls'[a].live
               /\ UNCHANGED <<original_image, processed_image>>
       /\ (last'.op = "process" /\ last'.outcome # "noop")
            => \A a \in ParamReads(method) : controls[a].live]_vars

C11_Witness ==
    /\ last = [op |-> "select", outcome |-> "ok"]
    /\ method = "Linear Contrast"
    /\ controls["alpha_slider"].value = 10
    /\ controls["beta_slider"].value = 0
    /\ original_image # None
    /\ processed_image # None
    /\ processed_image[1].px[1] # original_image[1].px[1]

=============================================================================
